---- MODULE Spec2Model ----
(***************************************************************************)
(* Reservation engine of Hotel_Booking_System.py: the SQLite store (Rooms, *)
(* Bookings, Payments), the customer screens that search, book, pay and    *)
(* cancel, and the staff screen that sets a booking's status.              *)
(*                                                                         *)
(* Several instances of the application share hotel.db.  Every function    *)
(* opens its own connection, so the unit of interleaving is one database   *)
(* transaction: book_selected is two steps (check_availability, then       *)
(* create_booking), every other handler is one.                            *)
(***************************************************************************)
EXTENDS Integers, Sequences, FiniteSets

\* ------------------------------------------------------------------ bounds
\* Calendar days are numbered 1..MaxDate; day 1 is today.
MaxDate == 3
\* At most MaxBookings rows are inserted into Bookings.
MaxBookings == 2
\* At most MaxPayments rows are inserted into Payments.
MaxPayments == 2
\* At most MaxRooms rows are ever inserted into Rooms, the seeded ones included.
MaxRooms == 3

\* Running application instances with a customer logged in, and the
\* customer accounts they may log in with.
Sessions == {1, 2}
Customers == {1, 2}

Dates == 1..MaxDate
Modes == {"Card"}
Statuses == {"Pending", "Confirmed", "Completed", "Cancelled"}
RoomTypes == {"Single", "Double", "Suite"}
RoomTypeFilters == {"All"} \cup RoomTypes
RoomStatuses == {"Available", "Booked", "Maintenance"}
\* What the staff types for a room number; "" is the field left empty.
RoomNumbers == {"101", "102", "103"}

VARIABLES
    rooms,      \* table Rooms: room_id -> row
    bookings,   \* table Bookings: booking_id -> row
    payments,   \* table Payments: payment_id -> row
    user,       \* self.user of each instance: 0 before login
    screen,     \* the page each instance shows
    browse,     \* the Browse page's tree: rows, _checkin, _checkout
    pend,       \* a book_selected call between its check and its insert
    mine,       \* the My Bookings page's tree rows
    payWin,     \* the open payment window: booking_id and amount
    msg,        \* what the last search, booking, payment, cancel or status
                \* handler reported; "" after any other handler
    probe       \* a direct call of a module-level function: its name, its
                \* arguments and what it returned; NoProbe in the application

vars == <<rooms, bookings, payments, user, screen, browse, pend, mine,
          payWin, msg, probe>>

store == <<rooms, bookings, payments>>

NoCall == [room_id |-> 0, start |-> 0, end |-> 0]
NoWin == [booking_id |-> 0, amount |-> 0]
NoTree == [rows |-> {}, checkin |-> 0, checkout |-> 0]
\* A row of Rooms that was deleted: room_id is AUTOINCREMENT, so the id of a
\* deleted row is never given to another room.
NoRoom == [room_number |-> "", room_type |-> "", price_per_night |-> 0,
           status |-> "Deleted"]
NoProbe == [fn |-> "", args |-> << >>, ret |-> << >>]
\* float("nan"), which the staff can type for a price, and the NULL that
\* SQLite stores when a NaN is bound to a REAL column: two values apart from
\* every price.  NaN compares FALSE with every number, and arithmetic on the
\* None that a NULL column reads as raises TypeError.
NaN == 0 - 1
NULL == 0 - 2
\* What float() makes of the texts the staff types for a price: text that is
\* refused, a price, and "nan".
Prices == {0, 1600, NaN}

\* ----------------------------------------------------------------- helpers
\* date.isoformat() as stored in the DATE columns, and strptime(..., "%Y-%m-%d")
\* reading it back: the stored text is a value of its own, not a date.
isoformat(d) == <<"iso", d>>

strptime(t) == t[2]

\* dates_overlap on closed intervals, as its docstring has it.
dates_overlap_inclusive(a_start, a_end, b_start, b_end) ==
    ~(a_end < b_start \/ b_end < a_start)

\* dates_overlap as the intersection of two sets of nights: an interval with
\* no night overlaps nothing.
dates_overlap_nonempty(a_start, a_end, b_start, b_end) ==
    \E n \in a_start..(a_end - 1) : n \in b_start..(b_end - 1)

\* dates_overlap with one of its two comparisons made strict.
dates_overlap_one_sided(a_start, a_end, b_start, b_end) ==
    ~(a_end < b_start \/ b_end <= a_start)

dates_overlap(a_start, a_end, b_start, b_end) ==
    ~(a_end <= b_start \/ b_end <= a_start)

\* price <= 0 on a Python float.
NotPositive(price) == price # NaN /\ price <= 0

\* A float bound as the parameter of a REAL column.
BindReal(price) == IF price = NaN THEN NULL ELSE price

\* ---------------------------------------------------------- business logic
\* SELECT room_id FROM Rooms
RoomIds == {r \in 1..Len(rooms) : rooms[r] # NoRoom}

\* The SELECT of check_availability without its status condition.
ActiveRows_any_status(room_id) ==
    {i \in 1..Len(bookings) : bookings[i].room_id = room_id}

\* The SELECT of check_availability without its room condition.
ActiveRows_any_room(room_id) ==
    {i \in 1..Len(bookings) : bookings[i].status \in {"Pending", "Confirmed"}}

ActiveRows(room_id) ==
    {i \in 1..Len(bookings) :
        /\ bookings[i].room_id = room_id
        /\ bookings[i].status \in {"Pending", "Confirmed"}}

\* check_availability with status = 'Confirmed' for its WHERE clause.
check_availability_confirmed_only(room_id, check_in, check_out) ==
    \A i \in {j \in ActiveRows(room_id) : bookings[j].status = "Confirmed"} :
        ~dates_overlap(check_in, check_out,
                       strptime(bookings[i].check_in),
                       strptime(bookings[i].check_out))

check_availability(room_id, check_in, check_out) ==
    \A i \in ActiveRows(room_id) :
        ~dates_overlap(check_in, check_out,
                       strptime(bookings[i].check_in),
                       strptime(bookings[i].check_out))

\* find_available_rooms with status = 'Available' for its WHERE clause.
find_available_rooms_available_only(check_in, check_out, room_type) ==
    {r \in RoomIds :
        /\ rooms[r].status = "Available"
        /\ (room_type # "All" => rooms[r].room_type = room_type)
        /\ check_availability(r, check_in, check_out)}

find_available_rooms(check_in, check_out, room_type) ==
    {r \in RoomIds :
        /\ rooms[r].status # "Maintenance"
        /\ (room_type # "All" => rooms[r].room_type = room_type)
        /\ check_availability(r, check_in, check_out)}

\* create_booking with its two dates in each other's column.
create_booking_dates_swapped(customer_id, room_id, check_in, check_out) ==
    Append(bookings, [customer_id |-> customer_id,
                      room_id |-> room_id,
                      check_in |-> isoformat(check_out),
                      check_out |-> isoformat(check_in),
                      status |-> "Pending"])

\* create_booking that inserts its row as Confirmed.
create_booking_confirmed(customer_id, room_id, check_in, check_out) ==
    Append(bookings, [customer_id |-> customer_id,
                      room_id |-> room_id,
                      check_in |-> isoformat(check_in),
                      check_out |-> isoformat(check_out),
                      status |-> "Confirmed"])

create_booking(customer_id, room_id, check_in, check_out) ==
    Append(bookings, [customer_id |-> customer_id,
                      room_id |-> room_id,
                      check_in |-> isoformat(check_in),
                      check_out |-> isoformat(check_out),
                      status |-> "Pending"])

\* The UPDATE of a booking's status without its WHERE clause.
UpdateStatus_every_row(booking_id, status) ==
    [i \in 1..Len(bookings) |-> [bookings[i] EXCEPT !.status = status]]

\* UPDATE Bookings SET status = ? WHERE booking_id = ?
UpdateStatus(booking_id, status) ==
    [i \in 1..Len(bookings) |->
        IF i = booking_id THEN [bookings[i] EXCEPT !.status = status]
        ELSE bookings[i]]

\* record_payment with an UPDATE that flips Pending and Confirmed.
record_payment_toggle(booking_id, amount, mode) ==
    /\ payments' = Append(payments, [booking_id |-> booking_id,
                                     amount |-> amount,
                                     payment_mode |-> mode])
    /\ bookings' = UpdateStatus(booking_id,
                        IF bookings[booking_id].status = "Pending"
                        THEN "Confirmed" ELSE "Pending")

\* record_payment with INSERT OR REPLACE keyed on the booking: a booking's
\* earlier payment is overwritten.
record_payment_replaces(booking_id, amount, mode) ==
    /\ payments' =
          IF \E p \in 1..Len(payments) : payments[p].booking_id = booking_id
          THEN [p \in 1..Len(payments) |->
                  IF payments[p].booking_id = booking_id
                  THEN [booking_id |-> booking_id, amount |-> amount + 1,
                        payment_mode |-> mode]
                  ELSE payments[p]]
          ELSE Append(payments, [booking_id |-> booking_id,
                                 amount |-> amount,
                                 payment_mode |-> mode])
    /\ bookings' = UpdateStatus(booking_id, "Confirmed")

\* record_payment that commits its UPDATE and never its INSERT.
record_payment_update_only(booking_id, amount, mode) ==
    /\ payments' = payments
    /\ bookings' = UpdateStatus(booking_id, "Confirmed")

\* record_payment without its UPDATE.
record_payment_no_update(booking_id, amount, mode) ==
    /\ payments' = Append(payments, [booking_id |-> booking_id,
                                     amount |-> amount,
                                     payment_mode |-> mode])
    /\ bookings' = bookings

record_payment(booking_id, amount, mode) ==
    /\ payments' = Append(payments, [booking_id |-> booking_id,
                                     amount |-> amount,
                                     payment_mode |-> mode])
    /\ bookings' = UpdateStatus(booking_id, "Confirmed")

\* ------------------------------------------------------------------- state
SeedRooms ==
    << [room_number |-> "101", room_type |-> "Single",
        price_per_night |-> 1500, status |-> "Available"],
       [room_number |-> "102", room_type |-> "Double",
        price_per_night |-> 2500, status |-> "Available"] >>

Init ==
    /\ rooms = SeedRooms
    /\ bookings = << >>
    /\ payments = << >>
    /\ user = [s \in Sessions |-> 0]
    /\ screen = [s \in Sessions |-> "login"]
    /\ browse = [s \in Sessions |-> NoTree]
    /\ pend = [s \in Sessions |-> NoCall]
    /\ mine = [s \in Sessions |-> {}]
    /\ payWin = [s \in Sessions |-> NoWin]
    /\ msg = ""
    /\ probe = NoProbe

\* A customer instance can take a new event: no modal window, no handler
\* halfway.
Idle(s) == payWin[s] = NoWin /\ pend[s] = NoCall


\* load without the customer condition of its WHERE clause.
LoadRows_every_customer(bks, pays, customer_id) ==
    {[booking_id |-> i,
      status |-> bks[i].status,
      paid |-> IF \E p \in 1..Len(pays) : pays[p].booking_id = i
               THEN "Paid" ELSE "Pending"] :
        i \in {j \in 1..Len(bks) : bks[j].room_id \in RoomIds}}

\* The rows show_my_bookings.load puts in the tree for one customer, read
\* from tables bks and pays: Bookings JOIN Rooms LEFT JOIN Payments.
LoadRows(bks, pays, customer_id) ==
    {[booking_id |-> i,
      status |-> bks[i].status,
      paid |-> IF \E p \in 1..Len(pays) : pays[p].booking_id = i
               THEN "Paid" ELSE "Pending"] :
        i \in {j \in 1..Len(bks) :
                 /\ bks[j].customer_id = customer_id
                 /\ bks[j].room_id \in RoomIds}}

\* show_my_bookings(): the page is rebuilt, and load() fills its tree.
ShowMine(s, bks, pays) ==
    /\ screen' = [screen EXCEPT ![s] = "my_bookings"]
    /\ mine' = [mine EXCEPT ![s] = LoadRows(bks, pays, user[s])]
    /\ browse' = [browse EXCEPT ![s] = NoTree]

\* --------------------------------------------------------- customer events
Login(s, c) ==
    /\ screen[s] = "login"
    /\ user' = [user EXCEPT ![s] = c]
    /\ screen' = [screen EXCEPT ![s] = "dashboard"]
    /\ UNCHANGED <<store, browse, pend, mine, payWin>>
    /\ msg' = ""
    /\ UNCHANGED probe

\* do_logout, a button of the dashboard: the instance is back at the page
\* it started with, with nobody logged in.
Logout(s) ==
    /\ screen[s] = "dashboard"
    /\ user' = [user EXCEPT ![s] = 0]
    /\ screen' = [screen EXCEPT ![s] = "login"]
    /\ UNCHANGED <<store, browse, pend, mine, payWin>>
    /\ msg' = ""
    /\ UNCHANGED probe

ShowBrowse(s) ==
    /\ screen[s] = "dashboard"
    /\ screen' = [screen EXCEPT ![s] = "browse"]
    /\ browse' = [browse EXCEPT ![s] = NoTree]
    /\ UNCHANGED <<store, user, pend, mine, payWin>>
    /\ msg' = ""
    /\ UNCHANGED probe

ShowMyBookings(s) ==
    /\ screen[s] = "dashboard"
    /\ ShowMine(s, bookings, payments)
    /\ UNCHANGED <<store, user, pend, payWin>>
    /\ msg' = ""
    /\ UNCHANGED probe

Back(s) ==
    /\ screen[s] \in {"browse", "my_bookings"}
    /\ Idle(s)
    /\ screen' = [screen EXCEPT ![s] = "dashboard"]
    /\ browse' = [browse EXCEPT ![s] = NoTree]
    /\ mine' = [mine EXCEPT ![s] = {}]
    /\ UNCHANGED <<store, user, pend, payWin>>
    /\ msg' = ""
    /\ UNCHANGED probe

\* search with the tree cleared before the dates are compared.
Search_clears_first(s, start, end, room_type) ==
    /\ screen[s] = "browse"
    /\ Idle(s)
    /\ IF end <= start
       THEN /\ msg' = "InvalidRange"
            /\ browse' = [browse EXCEPT ![s].rows = {}]
       ELSE LET found == find_available_rooms(start, end, room_type) IN
            IF found = {}
            THEN /\ browse' = [browse EXCEPT ![s].rows = {}]
                 /\ msg' = "NoRooms"
            ELSE /\ browse' = [browse EXCEPT ![s] =
                        [rows |-> found, checkin |-> start, checkout |-> end]]
                 /\ msg' = "Found"
    /\ UNCHANGED <<store, user, screen, pend, mine, payWin>>
    /\ UNCHANGED probe

\* search that refuses only a check-out before the check-in.
Search_same_day_allowed(s, start, end, room_type) ==
    /\ screen[s] = "browse"
    /\ Idle(s)
    /\ IF end < start
       THEN /\ msg' = "InvalidRange"
            /\ UNCHANGED browse
       ELSE LET found == find_available_rooms(start, end, room_type) IN
            IF found = {}
            THEN /\ browse' = [browse EXCEPT ![s].rows = {}]
                 /\ msg' = "NoRooms"
            ELSE /\ browse' = [browse EXCEPT ![s] =
                        [rows |-> found, checkin |-> start, checkout |-> end]]
                 /\ msg' = "Found"
    /\ UNCHANGED <<store, user, screen, pend, mine, payWin>>
    /\ UNCHANGED probe

\* The rooms are inserted in the tree in the order of the SELECT, which is
\* that of room_id; formatting a price that is None with :.2f raises
\* TypeError, which ends the handler with the rooms before that one listed
\* and the tree's two dates as they were.
Search(s, start, end, room_type) ==
    /\ screen[s] = "browse"
    /\ Idle(s)
    /\ IF end <= start
       THEN /\ msg' = "InvalidRange"
            /\ UNCHANGED browse
       ELSE LET found == find_available_rooms(start, end, room_type)
                unpriced == {r \in found : rooms[r].price_per_night = NULL}
            IN
            IF found = {}
            THEN /\ browse' = [browse EXCEPT ![s].rows = {}]
                 /\ msg' = "NoRooms"
            ELSE IF unpriced # {}
            THEN /\ browse' = [browse EXCEPT ![s].rows =
                        {r \in found : \A u \in unpriced : r < u}]
                 /\ msg' = "TypeError"
            ELSE /\ browse' = [browse EXCEPT ![s] =
                        [rows |-> found, checkin |-> start, checkout |-> end]]
                 /\ msg' = "Found"
    /\ UNCHANGED <<store, user, screen, pend, mine, payWin>>
    /\ UNCHANGED probe

InFlight == Cardinality({s \in Sessions : pend[s] # NoCall})

\* book_selected with a test of the room's status before its availability
\* check.
BookCheck_available_only(s, room_id) ==
    /\ screen[s] = "browse"
    /\ Idle(s)
    /\ room_id \in browse[s].rows
    /\ Len(bookings) + InFlight < MaxBookings
    /\ IF \/ rooms[room_id].status # "Available"
          \/ ~check_availability(room_id, browse[s].checkin, browse[s].checkout)
       THEN /\ msg' = "RoomUnavailable"
            /\ UNCHANGED pend
       ELSE /\ pend' = [pend EXCEPT ![s] =
                   [room_id |-> room_id,
                    start |-> browse[s].checkin,
                    end |-> browse[s].checkout]]
            /\ msg' = ""
    /\ UNCHANGED <<store, user, screen, browse, mine, payWin>>
    /\ UNCHANGED probe

\* book_selected, up to its availability check.  A tree that no search has
\* given its two dates has no _checkin attribute, and reading it raises
\* AttributeError.
BookCheck(s, room_id) ==
    /\ screen[s] = "browse"
    /\ Idle(s)
    /\ room_id \in browse[s].rows
    /\ Len(bookings) + InFlight < MaxBookings
    /\ IF browse[s].checkin = 0
       THEN /\ msg' = "AttributeError"
            /\ UNCHANGED pend
       ELSE IF ~check_availability(room_id, browse[s].checkin, browse[s].checkout)
       THEN /\ msg' = "RoomUnavailable"
            /\ UNCHANGED pend
       ELSE /\ pend' = [pend EXCEPT ![s] =
                   [room_id |-> room_id,
                    start |-> browse[s].checkin,
                    end |-> browse[s].checkout]]
            /\ msg' = ""
    /\ UNCHANGED <<store, user, screen, browse, mine, payWin>>
    /\ UNCHANGED probe

\* book_selected, from create_booking on: the insert, the total, and the
\* customer's answer to "Proceed to payment?".  When the room's row is gone
\* the SELECT of its price fetches None and r["price_per_night"] raises
\* TypeError, and so does price * total_nights when the price is None: the
\* handler ends there, after the insert.
BookInsert(s, proceed) ==
    /\ pend[s] # NoCall
    /\ LET c == pend[s]
           booking_id == Len(bookings) + 1
           total_nights == c.end - c.start
           price == rooms[c.room_id].price_per_night
           total_amount == price * total_nights
       IN /\ bookings' = create_booking(user[s], c.room_id, c.start, c.end)
          /\ pend' = [pend EXCEPT ![s] = NoCall]
          /\ IF c.room_id \notin RoomIds \/ price = NULL
             THEN /\ msg' = "TypeError"
                  /\ UNCHANGED <<screen, browse, mine, payWin>>
             ELSE IF proceed
             THEN /\ msg' = "Created"
                  /\ payWin' = [payWin EXCEPT ![s] =
                         [booking_id |-> booking_id, amount |-> total_amount]]
                  /\ UNCHANGED <<screen, browse, mine>>
             ELSE /\ msg' = "Created"
                  /\ ShowMine(s, bookings', payments)
                  /\ UNCHANGED payWin
    /\ UNCHANGED <<rooms, payments, user>>
    /\ UNCHANGED probe

\* do_pay that also sets the room of the booking to Booked.
DoPay_marks_room_booked(s, mode) ==
    /\ payWin[s] # NoWin
    /\ IF mode = ""
       THEN /\ msg' = "NoMode"
            /\ UNCHANGED <<rooms, bookings, payments, payWin, screen, browse, mine>>
       ELSE /\ Len(payments) < MaxPayments
            /\ record_payment(payWin[s].booking_id, payWin[s].amount, mode)
            /\ rooms' = [rooms EXCEPT
                  ![bookings[payWin[s].booking_id].room_id].status = "Booked"]
            /\ payWin' = [payWin EXCEPT ![s] = NoWin]
            /\ ShowMine(s, bookings', payments')
            /\ msg' = "Paid"
    /\ UNCHANGED <<user, pend>>
    /\ UNCHANGED probe

\* do_pay in the payment window; mode "" is no radio button chosen.
DoPay(s, mode) ==
    /\ payWin[s] # NoWin
    /\ IF mode = ""
       THEN /\ msg' = "NoMode"
            /\ UNCHANGED <<bookings, payments, payWin, screen, browse, mine>>
       ELSE /\ Len(payments) < MaxPayments
            /\ record_payment(payWin[s].booking_id, payWin[s].amount, mode)
            /\ payWin' = [payWin EXCEPT ![s] = NoWin]
            /\ ShowMine(s, bookings', payments')
            /\ msg' = "Paid"
    /\ UNCHANGED <<rooms, user, pend>>
    /\ UNCHANGED probe

\* The payment window's Cancel button.
PayClose(s) ==
    /\ payWin[s] # NoWin
    /\ payWin' = [payWin EXCEPT ![s] = NoWin]
    /\ UNCHANGED <<store, user, screen, browse, pend, mine>>
    /\ msg' = ""
    /\ UNCHANGED probe

PayPending(s, row) ==
    /\ screen[s] = "my_bookings"
    /\ Idle(s)
    /\ row \in mine[s]
    /\ IF row.paid = "Paid"
       THEN /\ msg' = "AlreadyPaid"
            /\ UNCHANGED payWin
       ELSE IF row.status = "Cancelled"
       THEN /\ msg' = "BookingCancelled"
            /\ UNCHANGED payWin
       ELSE IF \/ bookings[row.booking_id].room_id \notin RoomIds
               \/ rooms[bookings[row.booking_id].room_id].price_per_night = NULL
       THEN /\ msg' = "TypeError"
            /\ UNCHANGED payWin
       ELSE LET rr == bookings[row.booking_id]
                start == strptime(rr.check_in)
                end == strptime(rr.check_out)
                total == (end - start) * rooms[rr.room_id].price_per_night
            IN /\ payWin' = [payWin EXCEPT ![s] =
                      [booking_id |-> row.booking_id, amount |-> total]]
               /\ msg' = ""
    /\ UNCHANGED <<store, user, screen, browse, pend, mine>>
    /\ UNCHANGED probe

\* cancel_booking without its test of the selected row's status.
CancelBooking_unguarded(s, row, confirm) ==
    /\ screen[s] = "my_bookings"
    /\ Idle(s)
    /\ row \in mine[s]
    /\ IF confirm
       THEN /\ bookings' = UpdateStatus(row.booking_id, "Cancelled")
            /\ mine' = [mine EXCEPT ![s] = LoadRows(bookings', payments, user[s])]
            /\ msg' = "Cancelled"
       ELSE /\ msg' = ""
            /\ UNCHANGED <<bookings, mine>>
    /\ UNCHANGED <<rooms, payments, user, screen, browse, pend, payWin>>
    /\ UNCHANGED probe

CancelBooking(s, row, confirm) ==
    /\ screen[s] = "my_bookings"
    /\ Idle(s)
    /\ row \in mine[s]
    /\ IF row.status = "Cancelled"
       THEN /\ msg' = "AlreadyCancelled"
            /\ UNCHANGED <<bookings, mine>>
       ELSE IF confirm
       THEN /\ bookings' = UpdateStatus(row.booking_id, "Cancelled")
            /\ mine' = [mine EXCEPT ![s] = LoadRows(bookings', payments, user[s])]
            /\ msg' = "Cancelled"
       ELSE /\ msg' = ""
            /\ UNCHANGED <<bookings, mine>>
    /\ UNCHANGED <<rooms, payments, user, screen, browse, pend, payWin>>
    /\ UNCHANGED probe

\* ------------------------------------------------------------ staff events
\* show_view_bookings.load: every booking is listed.  The page loads its tree
\* when shown and on Refresh, and set_status reads only the booking id of the
\* selected row, so the staff can select any booking of the table.
StaffRows == 1..Len(bookings)

\* A staff override that re-checks availability before it reactivates a
\* booking.
update_rechecked(bid, new_status) ==
    LET b == bookings[bid]
        free == \A i \in ActiveRows(b.room_id) \ {bid} :
                    ~dates_overlap(strptime(b.check_in), strptime(b.check_out),
                                   strptime(bookings[i].check_in),
                                   strptime(bookings[i].check_out))
    IN IF new_status \in {"Pending", "Confirmed"} /\ ~free
       THEN bookings
       ELSE UpdateStatus(bid, new_status)

\* A staff override that refuses every change but {Pending, Confirmed} to
\* {Completed, Cancelled}.
update_permitted(bid, new_status) ==
    IF \/ bookings[bid].status = new_status
       \/ /\ bookings[bid].status \in {"Pending", "Confirmed"}
          /\ new_status \in {"Completed", "Cancelled"}
    THEN UpdateStatus(bid, new_status)
    ELSE bookings

\* set_status.update: the Bookings table after its UPDATE.
update(bid, new_status) == UpdateStatus(bid, new_status)

\* set_status on the selected row and update in its window.  The window is
\* modal and update reads nothing from the store, so the two run as one step;
\* new_status "" is no radio button chosen.
SetStatus(bid, new_status) ==
    /\ bid \in StaffRows
    /\ IF new_status = ""
       THEN /\ msg' = "NoStatus"
            /\ UNCHANGED bookings
       ELSE /\ bookings' = update(bid, new_status)
            /\ msg' = "Updated"
    /\ UNCHANGED <<rooms, payments, user, screen, browse, pend, mine, payWin>>
    /\ UNCHANGED probe

\* Rooms.room_number without its UNIQUE constraint.
NumberTaken_unconstrained(num, rid) == FALSE

\* The UNIQUE constraint on Rooms.room_number: a row other than rid has num.
NumberTaken(num, rid) ==
    \E r \in RoomIds : r # rid /\ rooms[r].room_number = num

\* The order of room numbers as texts.
RoomNumberOrder == <<"101", "102", "103">>

Before(a, b) ==
    \E i \in 1..Len(RoomNumberOrder), j \in 1..Len(RoomNumberOrder) :
        i < j /\ RoomNumberOrder[i] = a /\ RoomNumberOrder[j] = b

\* load_rooms: the rooms in the tree of the Manage Rooms page, which the page
\* loads when shown and after every change.  The rows are inserted by room
\* number, and formatting a price that is None with :.2f raises TypeError:
\* that room and the rooms after it are not listed.
ListedRooms ==
    {r \in RoomIds :
        /\ rooms[r].price_per_night # NULL
        /\ \A u \in RoomIds :
              rooms[u].price_per_night = NULL
              => ~Before(rooms[u].room_number, rooms[r].room_number)}

\* add_room and save in its window, which is modal.  price is what float()
\* made of the text typed: 0 stands for any text that is refused, as not a
\* number or as not above 0; the new row gets the column default 'Available'
\* for its status.
AddRoom(num, rtype, price) ==
    /\ IF num = ""
       THEN /\ msg' = "FieldsRequired"
            /\ UNCHANGED rooms
       ELSE IF NotPositive(price)
       THEN /\ msg' = "InvalidPrice"
            /\ UNCHANGED rooms
       ELSE IF NumberTaken(num, 0)
       THEN /\ msg' = "DuplicateRoomNumber"
            /\ UNCHANGED rooms
       ELSE /\ Len(rooms) < MaxRooms
            /\ rooms' = Append(rooms, [room_number |-> num,
                                       room_type |-> rtype,
                                       price_per_night |-> BindReal(price),
                                       status |-> "Available"])
            /\ msg' = "RoomAdded"
    /\ UNCHANGED <<bookings, payments, user, screen, browse, pend, mine, payWin>>
    /\ UNCHANGED probe

\* edit_room on the selected room and save in its window, which is modal: the
\* staff sets a number, a type, a price and a status and leaves the
\* description as the form shows it.  price is as in AddRoom.
EditRoom(rid, num, rtype, price, status) ==
    /\ rid \in ListedRooms
    /\ IF num = ""
       THEN /\ msg' = "FieldsRequired"
            /\ UNCHANGED rooms
       ELSE IF NotPositive(price)
       THEN /\ msg' = "InvalidPrice"
            /\ UNCHANGED rooms
       ELSE IF NumberTaken(num, rid)
       THEN /\ msg' = "DuplicateRoomNumber"
            /\ UNCHANGED rooms
       ELSE /\ rooms' = [rooms EXCEPT ![rid].room_number = num,
                                      ![rid].room_type = rtype,
                                      ![rid].price_per_night = BindReal(price),
                                      ![rid].status = status]
            /\ msg' = "RoomUpdated"
    /\ UNCHANGED <<bookings, payments, user, screen, browse, pend, mine, payWin>>
    /\ UNCHANGED probe

\* delete_room that counts only the Pending and Confirmed bookings of the
\* room.
DeleteRoom_counts_active(rid, confirm) ==
    /\ rid \in ListedRooms
    /\ IF ~confirm
       THEN /\ msg' = ""
            /\ UNCHANGED rooms
       ELSE IF ActiveRows(rid) # {}
       THEN /\ msg' = "RoomHasBookings"
            /\ UNCHANGED rooms
       ELSE /\ rooms' = [rooms EXCEPT ![rid] = NoRoom]
            /\ msg' = "RoomDeleted"
    /\ UNCHANGED <<bookings, payments, user, screen, browse, pend, mine, payWin>>
    /\ UNCHANGED probe

\* delete_room on the selected room.  Its SELECT COUNT and its DELETE run on
\* one connection, one after the other, and are taken as one step.
DeleteRoom(rid, confirm) ==
    /\ rid \in ListedRooms
    /\ IF ~confirm
       THEN /\ msg' = ""
            /\ UNCHANGED rooms
       ELSE IF \E i \in 1..Len(bookings) : bookings[i].room_id = rid
       THEN /\ msg' = "RoomHasBookings"
            /\ UNCHANGED rooms
       ELSE /\ rooms' = [rooms EXCEPT ![rid] = NoRoom]
            /\ msg' = "RoomDeleted"
    /\ UNCHANGED <<bookings, payments, user, screen, browse, pend, mine, payWin>>
    /\ UNCHANGED probe

\* ------------------------------------------------------------ direct calls
\* dates_overlap(a_start, a_end, b_start, b_end) called on its own, with any
\* four days for its arguments: the application never passes it an interval
\* that ends on or before its start, a direct caller may.
InitOverlap ==
    /\ rooms = SeedRooms
    /\ bookings = << >>
    /\ payments = << >>
    /\ user = [s \in Sessions |-> 0]
    /\ screen = [s \in Sessions |-> "login"]
    /\ browse = [s \in Sessions |-> NoTree]
    /\ pend = [s \in Sessions |-> NoCall]
    /\ mine = [s \in Sessions |-> {}]
    /\ payWin = [s \in Sessions |-> NoWin]
    /\ msg = ""
    /\ \E a_start \in Dates, a_end \in Dates, b_start \in Dates, b_end \in Dates :
          probe = [fn |-> "dates_overlap",
                   args |-> <<a_start, a_end, b_start, b_end>>,
                   ret |-> << >>]

CallDatesOverlap ==
    /\ probe.fn = "dates_overlap"
    /\ probe.ret = << >>
    /\ probe' = [probe EXCEPT !.ret =
          <<dates_overlap(probe.args[1], probe.args[2],
                          probe.args[3], probe.args[4])>>]
    /\ UNCHANGED <<store, user, screen, browse, pend, mine, payWin, msg>>

SpecOverlap == InitOverlap /\ [][CallDatesOverlap]_vars

\* create_booking and record_payment called on their own, one call after
\* another on the store the earlier calls left, with arguments the pages of
\* the application never pass: a check-out on or before the check-in, an
\* amount that is not positive, the id of a booking that does not exist.
Amounts == {0 - 1500, 0, 1500}

CallArgs ==
    [fn : {"create_booking"},
     args : {<<1, 1, check_in, check_out>> :
                check_in \in Dates, check_out \in Dates},
     ret : {<< >>}]
    \cup
    [fn : {"record_payment"},
     args : {<<booking_id, amount, mode>> :
                booking_id \in 1..(MaxBookings + 1), amount \in Amounts,
                mode \in Modes},
     ret : {<< >>}]

InitCalls ==
    /\ rooms = SeedRooms
    /\ bookings = << >>
    /\ payments = << >>
    /\ user = [s \in Sessions |-> 0]
    /\ screen = [s \in Sessions |-> "login"]
    /\ browse = [s \in Sessions |-> NoTree]
    /\ pend = [s \in Sessions |-> NoCall]
    /\ mine = [s \in Sessions |-> {}]
    /\ payWin = [s \in Sessions |-> NoWin]
    /\ msg = ""
    /\ probe \in CallArgs

\* The caller's next call, once the last one has returned.
PlaceCall ==
    /\ probe.ret # << >>
    /\ probe' \in CallArgs
    /\ UNCHANGED <<store, user, screen, browse, pend, mine, payWin, msg>>

\* create_booking returns the id of the row it inserted.
CallCreateBooking ==
    /\ probe.fn = "create_booking"
    /\ probe.ret = << >>
    /\ Len(bookings) < MaxBookings
    /\ bookings' = create_booking(probe.args[1], probe.args[2],
                                  probe.args[3], probe.args[4])
    /\ probe' = [probe EXCEPT !.ret = <<Len(bookings')>>]
    /\ UNCHANGED <<rooms, payments, user, screen, browse, pend, mine, payWin,
                   msg>>

\* record_payment returns None; its UPDATE matches no row when no booking has
\* the id.
CallRecordPayment ==
    /\ probe.fn = "record_payment"
    /\ probe.ret = << >>
    /\ Len(payments) < MaxPayments
    /\ record_payment(probe.args[1], probe.args[2], probe.args[3])
    /\ probe' = [probe EXCEPT !.ret = <<"None">>]
    /\ UNCHANGED <<rooms, user, screen, browse, pend, mine, payWin, msg>>

NextCalls ==
    \/ PlaceCall
    \/ CallCreateBooking
    \/ CallRecordPayment

SpecCalls == InitCalls /\ [][NextCalls]_vars

\* ----------------------------------------------------------- specifications
Navigate(s) ==
    \/ ShowBrowse(s)
    \/ ShowMyBookings(s)
    \/ Back(s)

Book(s) ==
    \/ \E start \in Dates, end \in Dates \ {1} : Search(s, start, end, "All")
    \/ \E r \in 1..Len(rooms) : BookCheck(s, r)
    \/ \E proceed \in BOOLEAN : BookInsert(s, proceed)

Pay(s) ==
    \/ \E m \in Modes \cup {""} : DoPay(s, m)
    \/ PayClose(s)
    \/ \E row \in mine[s] : PayPending(s, row)

Cancel(s) ==
    \E row \in mine[s], confirm \in BOOLEAN : CancelBooking(s, row, confirm)

Customer(s) == Navigate(s) \/ Book(s) \/ Pay(s) \/ Cancel(s)

Staff ==
    \E bid \in StaffRows, st \in Statuses \cup {""} : SetStatus(bid, st)

StaffRooms ==
    \/ \E num \in RoomNumbers \cup {""}, rtype \in RoomTypes, price \in Prices :
          AddRoom(num, rtype, price)
    \/ \E rid \in RoomIds, num \in RoomNumbers \cup {""} :
          \E rtype \in RoomTypes, price \in Prices, status \in RoomStatuses :
             EditRoom(rid, num, rtype, price, status)
    \/ \E rid \in RoomIds, confirm \in BOOLEAN : DeleteRoom(rid, confirm)

\* Every instance, with any customer logged in, and the staff.  The
\* specifications below restrict who acts; each of their steps is a step of
\* Next.
Next ==
    \/ \E s \in Sessions : (\E c \in Customers : Login(s, c)) \/ Customer(s)
    \/ \E s \in Sessions : Logout(s)
    \/ \E s \in Sessions, start \in Dates, end \in Dates \ {1} :
          \E room_type \in RoomTypes : Search(s, start, end, room_type)
    \/ Staff
    \/ StaffRooms

Spec == Init /\ [][Next]_vars

\* Concurrent booking requests alone: two instances search and book.
NextBook ==
    \E s \in Sessions :
        \/ \E c \in Customers : Login(s, c)
        \/ ShowBrowse(s)
        \/ Back(s)
        \/ Book(s)
        \/ PayClose(s)

SpecBook == Init /\ [][NextBook]_vars

\* One customer in one instance, no staff: requests run one after another.
NextGuest ==
    \/ Login(1, 1)
    \/ Customer(1)

SpecGuest == Init /\ [][NextGuest]_vars

\* One customer in one instance who books and cancels, and the staff.
NextOverride ==
    \/ Login(1, 1)
    \/ Navigate(1)
    \/ Book(1)
    \/ PayClose(1)
    \/ Cancel(1)
    \/ Staff

SpecOverride == Init /\ [][NextOverride]_vars

\* One customer logged in on two instances, who books and pays; no staff.
NextTwo ==
    \E s \in Sessions :
        \/ Login(s, 1)
        \/ Navigate(s)
        \/ Book(s)
        \/ Pay(s)

SpecTwo == Init /\ [][NextTwo]_vars

\* One customer logged in on two instances, who books and pays on the first
\* and cancels on the second; no staff.
NextStale ==
    \/ \E s \in Sessions : Login(s, 1) \/ Navigate(s)
    \/ Book(1)
    \/ Pay(1)
    \/ Cancel(2)

SpecStale == Init /\ [][NextStale]_vars

\* One customer who searches and books while the staff deletes rooms and
\* adds them again.
NextDelete ==
    \/ Login(1, 1)
    \/ ShowBrowse(1)
    \/ Back(1)
    \/ \E start \in Dates, end \in Dates \ {1} : Search(1, start, end, "All")
    \/ \E r \in 1..Len(rooms) : BookCheck(1, r)
    \/ BookInsert(1, FALSE)
    \/ \E rid \in RoomIds, confirm \in BOOLEAN : DeleteRoom(rid, confirm)
    \/ \E num \in RoomNumbers : AddRoom(num, "Single", 1600)

SpecDelete == Init /\ [][NextDelete]_vars

\* The staff alone, adding, renumbering and deleting rooms.
NextManage ==
    \/ \E num \in RoomNumbers \cup {""}, price \in {0, 1600} :
          AddRoom(num, "Single", price)
    \/ \E rid \in RoomIds, num \in RoomNumbers \cup {""} :
          \E status \in RoomStatuses :
             EditRoom(rid, num, rooms[rid].room_type,
                      rooms[rid].price_per_night, status)
    \/ \E rid \in RoomIds, confirm \in BOOLEAN : DeleteRoom(rid, confirm)

SpecManage == Init /\ [][NextManage]_vars

\* One customer who searches with every room type filter and books, while
\* the staff edits the status of the rooms.
NextRooms ==
    \/ Login(1, 1)
    \/ ShowBrowse(1)
    \/ Back(1)
    \/ \E start \in Dates, end \in Dates \ {1}, room_type \in RoomTypeFilters :
          Search(1, start, end, room_type)
    \/ \E r \in 1..Len(rooms) : BookCheck(1, r)
    \/ BookInsert(1, FALSE)
    \/ \E rid \in RoomIds, status \in RoomStatuses :
          EditRoom(rid, rooms[rid].room_number, rooms[rid].room_type,
                   rooms[rid].price_per_night, status)

SpecRooms == Init /\ [][NextRooms]_vars

\* One customer who searches, books and pays, while the staff adds rooms and
\* edits the price of rooms.
NextPrice ==
    \/ Login(1, 1)
    \/ Navigate(1)
    \/ Book(1)
    \/ Pay(1)
    \/ \E num \in RoomNumbers, price \in Prices : AddRoom(num, "Single", price)
    \/ \E rid \in RoomIds, price \in Prices :
          EditRoom(rid, rooms[rid].room_number, rooms[rid].room_type, price,
                   rooms[rid].status)

SpecPrice == Init /\ [][NextPrice]_vars

\* One customer in one instance who books stays of one night, pays from the
\* My Bookings page and cancels, and the staff who sets bookings to Completed
\* or back to Pending.
NextLife ==
    \/ Login(1, 1)
    \/ Navigate(1)
    \/ \E start \in Dates \ {MaxDate} : Search(1, start, start + 1, "All")
    \/ \E r \in 1..Len(rooms) : BookCheck(1, r)
    \/ BookInsert(1, FALSE)
    \/ Pay(1)
    \/ Cancel(1)
    \/ \E bid \in StaffRows, st \in {"Completed", "Pending", ""} :
          SetStatus(bid, st)

SpecLife == Init /\ [][NextLife]_vars

\* One customer in one instance who books stays of one night, pays from the
\* My Bookings page and cancels, and the staff who sets bookings to Completed
\* and rooms to Booked or Available.
NextFrame ==
    \/ Login(1, 1)
    \/ Navigate(1)
    \/ \E start \in Dates \ {MaxDate} : Search(1, start, start + 1, "All")
    \/ \E r \in 1..Len(rooms) : BookCheck(1, r)
    \/ BookInsert(1, FALSE)
    \/ Pay(1)
    \/ Cancel(1)
    \/ \E bid \in StaffRows, st \in {"Completed", ""} : SetStatus(bid, st)
    \/ \E rid \in RoomIds, status \in {"Available", "Booked"} :
          EditRoom(rid, rooms[rid].room_number, rooms[rid].room_type,
                   rooms[rid].price_per_night, status)

SpecFrame == Init /\ [][NextFrame]_vars

\* One customer in one instance who books stays of one night and cancels,
\* and the staff who completes bookings and deletes rooms.
NextKeep ==
    \/ Login(1, 1)
    \/ Navigate(1)
    \/ \E start \in Dates \ {MaxDate} : Search(1, start, start + 1, "All")
    \/ \E r \in 1..Len(rooms) : BookCheck(1, r)
    \/ BookInsert(1, FALSE)
    \/ Cancel(1)
    \/ \E bid \in StaffRows, st \in {"Completed", ""} : SetStatus(bid, st)
    \/ \E rid \in RoomIds, confirm \in BOOLEAN : DeleteRoom(rid, confirm)

SpecKeep == Init /\ [][NextKeep]_vars

\* Two instances on which either customer logs in and out, books the first
\* night, pays and cancels.
NextOwn ==
    \E s \in Sessions :
        \/ \E c \in Customers : Login(s, c)
        \/ Logout(s)
        \/ Navigate(s)
        \/ Search(s, 1, 2, "All")
        \/ \E r \in 1..Len(rooms) : BookCheck(s, r)
        \/ \E proceed \in BOOLEAN : BookInsert(s, proceed)
        \/ Pay(s)
        \/ Cancel(s)

SpecOwn == Init /\ [][NextOwn]_vars

\* ------------------------------------------------------------------ claims
Active(i) == bookings[i].status \in {"Pending", "Confirmed"}

In(i) == strptime(bookings[i].check_in)

Out(i) == strptime(bookings[i].check_out)

\* Bookings i and j are of one room and their [check-in, check-out) share a day.
Clash(i, j) ==
    /\ i # j
    /\ bookings[i].room_id = bookings[j].room_id
    /\ In(i) < Out(j)
    /\ In(j) < Out(i)

\* Some active booking of room r shares a day with [a, b).
Taken(r, a, b) ==
    \E i \in 1..Len(bookings) :
        /\ bookings[i].room_id = r
        /\ Active(i)
        /\ a < Out(i)
        /\ In(i) < b

\* C1: after any interleaving of booking requests, no two active bookings of
\* one room have overlapping stays.
C1_NoActiveOverlap ==
    \A i, j \in 1..Len(bookings) : (Active(i) /\ Active(j)) => ~Clash(i, j)

\* C2: of two concurrent requests for one room and the identical stay, at most
\* one inserts a booking: the store never holds two active bookings of one
\* room with the same check-in and check-out.
C2_OneOfTwoIdenticalRequests ==
    \A i, j \in 1..Len(bookings) :
        (i # j /\ Active(i) /\ Active(j)
            /\ bookings[i].room_id = bookings[j].room_id)
        => ~(In(i) = In(j) /\ Out(i) = Out(j))

\* C3: a booking request for a listed room whose stay overlaps an active
\* booking of that room in the store reports RoomUnavailable, inserts nothing
\* and goes no further.
C3_OverlapRejected ==
    [][\A s \in Sessions, r \in 1..Len(rooms) :
          (BookCheck(s, r) /\ Taken(r, browse[s].checkin, browse[s].checkout))
          => /\ msg' = "RoomUnavailable"
             /\ bookings' = bookings
             /\ pend'[s] = NoCall]_vars

\* A request was just refused for a room that the instance's earlier search
\* listed as available.
C3_Witness ==
    /\ msg = "RoomUnavailable"
    /\ \E s \in Sessions, r \in 1..Len(rooms) :
          /\ screen[s] = "browse"
          /\ r \in browse[s].rows
          /\ Taken(r, browse[s].checkin, browse[s].checkout)

C5_TerminalStatusesAreFinal ==
    [][\A i \in 1..Len(bookings) :
          bookings[i].status \in {"Completed", "Cancelled"}
          => bookings'[i].status = bookings[i].status]_vars

\* C6: no payment row is appended for a booking whose status in the store is
\* Cancelled, and such a booking stays Cancelled.
C6_NoPaymentOnCancelled ==
    [][\A s \in Sessions, m \in Modes :
          (DoPay(s, m) /\ bookings[payWin[s].booking_id].status = "Cancelled")
          => (payments' = payments /\ bookings' = bookings)]_vars

\* The status changes section 4.3 of the specification permits to SetStatus.
Permitted(old, new) ==
    \/ old = new
    \/ old \in {"Pending", "Confirmed"} /\ new \in {"Completed", "Cancelled"}

C8_ConfirmSkipsAvailability ==
    [][\A bid \in StaffRows :
          SetStatus(bid, "Confirmed") =>
            /\ bookings'[bid].status = "Confirmed"
            /\ \A j \in StaffRows :
                  (Active(j) /\ Clash(bid, j))
                  => (bookings'[j].status = bookings[j].status
                      /\ ~C1_NoActiveOverlap')]_vars

\* The staff just confirmed the older of two bookings of one room with
\* overlapping stays, and both are active: with one customer instance the
\* younger was created while the older was not active.
C8_Witness ==
    /\ msg = "Updated"
    /\ Len(bookings) = 2
    /\ bookings[1].status = "Confirmed"
    /\ Active(2)
    /\ Clash(1, 2)

PayCount(b) == Cardinality({p \in 1..Len(payments) : payments[p].booking_id = b})

\* C9: a payment on a Pending booking appends exactly one payment row, for
\* that booking, and the booking becomes Confirmed.
C9_PaymentConfirmsPending ==
    [][\A s \in Sessions, m \in Modes :
          (DoPay(s, m) /\ bookings[payWin[s].booking_id].status = "Pending")
          => /\ Len(payments') = Len(payments) + 1
             /\ SubSeq(payments', 1, Len(payments)) = payments
             /\ payments'[Len(payments')].booking_id = payWin[s].booking_id
             /\ bookings'[payWin[s].booking_id].status = "Confirmed"
             /\ \A i \in 1..Len(bookings) :
                   i # payWin[s].booking_id => bookings'[i] = bookings[i]]_vars

\* A payment was just made and a Confirmed booking has exactly one payment.
C9_Witness ==
    /\ msg = "Paid"
    /\ \E b \in 1..Len(bookings) :
          bookings[b].status = "Confirmed" /\ PayCount(b) = 1

\* C10: where only bookings and payments are made, a booking with one payment
\* is Confirmed and a booking with two payments is still Confirmed.
C10_RepeatPaymentKeepsConfirmed ==
    \A b \in 1..Len(bookings) :
        PayCount(b) >= 1 => bookings[b].status = "Confirmed"

\* A second payment was just made on a booking, and the booking is Confirmed.
C10_Witness ==
    /\ msg = "Paid"
    /\ \E b \in 1..Len(bookings) :
          bookings[b].status = "Confirmed" /\ PayCount(b) = 2

\* C11: a CancelBooking the customer confirms moves a Pending or Confirmed
\* booking to Cancelled, and a CancelBooking on a booking in any other status
\* (Completed in particular) leaves the booking's status as it is.
C11_CancelOnlyFromActive ==
    [][\A s \in Sessions : \A row \in mine[s] : \A confirm \in BOOLEAN :
          CancelBooking(s, row, confirm) =>
            LET b == row.booking_id IN
            IF bookings[b].status \in {"Pending", "Confirmed"}
            THEN confirm => bookings'[b].status = "Cancelled"
            ELSE bookings'[b].status = bookings[b].status]_vars

\* C12: a CancelBooking on a booking that is already Cancelled in the store
\* leaves bookings, payments and rooms as they are and is reported, not
\* refused: as already cancelled when the list shows the booking Cancelled
\* (as it does after the first call), as cancelled when the list is older.
C12_SecondCancelIsNoOp ==
    [][\A s \in Sessions : \A row \in mine[s] : \A confirm \in BOOLEAN :
          (/\ CancelBooking(s, row, confirm)
           /\ bookings[row.booking_id].status = "Cancelled"
           /\ (row.status = "Cancelled" \/ confirm))
          => /\ store' = store
             /\ msg' = IF row.status = "Cancelled"
                       THEN "AlreadyCancelled" ELSE "Cancelled"]_vars

\* A cancel of a Cancelled booking was just reported as already cancelled.
C12_Witness ==
    /\ msg = "AlreadyCancelled"
    /\ \E s \in Sessions : \E row \in mine[s] :
          /\ screen[s] = "my_bookings"
          /\ row.status = "Cancelled"
          /\ bookings[row.booking_id].status = "Cancelled"

\* C13: when a cancel of a Pending or Confirmed booking of room R over
\* [a, b) has been carried out and R has no other active booking that overlaps
\* [a, b), then in the state the cancel leaves check_availability(R, a, b) is
\* TRUE and, R not being in Maintenance, find_available_rooms(a, b) holds R.
C13_CancelFreesCapacity ==
    [][\A s \in Sessions : \A row \in mine[s] :
          (/\ CancelBooking(s, row, TRUE)
           /\ row.status # "Cancelled"
           /\ bookings[row.booking_id].status \in {"Pending", "Confirmed"})
          => LET i == row.booking_id
                 R == bookings[i].room_id
                 a == In(i)
                 b == Out(i)
                 others == \E j \in 1..Len(bookings) :
                              /\ j # i
                              /\ Active(j)
                              /\ bookings[j].room_id = R
                              /\ In(j) < b
                              /\ a < Out(j)
             IN ~others =>
                  /\ check_availability(R, a, b)'
                  /\ rooms[R].status # "Maintenance"
                     => (R \in find_available_rooms(a, b, "All"))']_vars

\* A booking was just cancelled, and its room is available for its stay and
\* is found by a search of it.
C13_Witness ==
    /\ msg = "Cancelled"
    /\ \E i \in 1..Len(bookings) :
          /\ bookings[i].status = "Cancelled"
          /\ check_availability(bookings[i].room_id, In(i), Out(i))
          /\ bookings[i].room_id \in find_available_rooms(In(i), Out(i), "All")

\* C14: on the store as it is, check_availability(room, start, end) is FALSE
\* exactly when a Pending or Confirmed booking of that room overlaps
\* [start, end); bookings of other rooms and Cancelled or Completed bookings
\* do not count.
C14_IsAvailableIffNoActiveOverlap ==
    \A r \in 1..Len(rooms), start \in Dates, end \in Dates :
        check_availability(r, start, end)
        = ~(\E i \in 1..Len(bookings) :
               /\ bookings[i].room_id = r
               /\ bookings[i].status \in {"Pending", "Confirmed"}
               /\ ~(end <= In(i) \/ Out(i) <= start))

\* A booking request has passed its availability check for a stay that a
\* Completed or Cancelled booking of the same room overlaps.
C14_Witness ==
    \E s \in Sessions, i \in 1..Len(bookings) :
        /\ pend[s] # NoCall
        /\ bookings[i].room_id = pend[s].room_id
        /\ bookings[i].status \in {"Completed", "Cancelled"}
        /\ In(i) < pend[s].end
        /\ pend[s].start < Out(i)

\* C17: a search over [start, end) with end after start lists exactly the
\* rooms that are not in Maintenance, that are of the type asked for when the
\* filter is not All, and for which check_availability holds; a Booked room is
\* listed like an Available one.
C17_SearchListsExactlyTheFreeRooms ==
    [][\A s \in Sessions, start \in Dates, end \in Dates :
       \A room_type \in RoomTypeFilters :
          (Search(s, start, end, room_type) /\ end > start)
          => browse'[s].rows =
               {r \in RoomIds :
                  /\ rooms[r].status # "Maintenance"
                  /\ (room_type = "All" \/ rooms[r].room_type = room_type)
                  /\ check_availability(r, start, end)}]_vars

\* A search has just listed a Booked room and left out a room that is free
\* for the stay and not in Maintenance, which only the type filter excludes.
C17_Witness ==
    /\ msg = "Found"
    /\ \E s \in Sessions, r \in 1..Len(rooms), q \in 1..Len(rooms) :
          /\ r \in browse[s].rows
          /\ rooms[r].status = "Booked"
          /\ q \notin browse[s].rows
          /\ rooms[q].status # "Maintenance"
          /\ check_availability(q, browse[s].checkin, browse[s].checkout)

C16_OverlapsSymmetricReflexive ==
    (probe.fn = "dates_overlap" /\ probe.ret # << >>) =>
        LET aStart == probe.args[1]
            aEnd == probe.args[2]
            bStart == probe.args[3]
            bEnd == probe.args[4]
        IN /\ probe.ret[1] = dates_overlap(bStart, bEnd, aStart, aEnd)
           /\ (aStart = bStart /\ aEnd = bEnd /\ aEnd > aStart)
              => probe.ret[1] = TRUE

\* dates_overlap has returned for two different intervals that meet at one
\* day, the later one given first.
C16_Witness ==
    /\ probe.fn = "dates_overlap"
    /\ probe.ret = <<FALSE>>
    /\ probe.args[3] < probe.args[4]
    /\ probe.args[4] = probe.args[1]
    /\ probe.args[1] < probe.args[2]

\* C18: a search with end on or before start reports InvalidRange and
\* changes nothing: the rows listed before and the stored search interval stay,
\* and so does the store.
C18_InvalidRangeChangesNothing ==
    [][\A s \in Sessions, start \in Dates, end \in Dates :
       \A room_type \in RoomTypeFilters :
          (Search(s, start, end, room_type) /\ end <= start)
          => /\ msg' = "InvalidRange"
             /\ browse' = browse
             /\ store' = store]_vars

\* A search was just refused for its dates while an earlier search's rooms
\* are still listed.
C18_Witness ==
    /\ msg = "InvalidRange"
    /\ \E s \in Sessions :
          /\ browse[s].rows # {}
          /\ browse[s].checkin < browse[s].checkout

\* C19: the insert of a booking request adds exactly one row to Bookings,
\* under the next booking id, with the customer of the instance, the room and
\* the dates of the request and status Pending; the other bookings and the
\* payments stay as they are.
C19_CreateBookingAddsOnePendingRow ==
    [][\A s \in Sessions, proceed \in BOOLEAN :
          BookInsert(s, proceed) =>
            LET id == Len(bookings) + 1 IN
            /\ Len(bookings') = id
            /\ SubSeq(bookings', 1, Len(bookings)) = bookings
            /\ bookings'[id].customer_id = user[s]
            /\ bookings'[id].room_id = pend[s].room_id
            /\ strptime(bookings'[id].check_in) = pend[s].start
            /\ strptime(bookings'[id].check_out) = pend[s].end
            /\ bookings'[id].status = "Pending"
            /\ payments' = payments
            /\ proceed => payWin'[s].booking_id = id]_vars

\* A second booking was just created, by another customer than the first,
\* and both are Pending.
C19_Witness ==
    /\ msg = "Created"
    /\ Len(bookings) = 2
    /\ bookings[1].customer_id # bookings[2].customer_id
    /\ bookings[1].status = "Pending"
    /\ bookings[2].status = "Pending"

\* C20: every booking in the store has its check-out after its check-in.
C20_CheckOutAfterCheckIn ==
    \A i \in 1..Len(bookings) : Out(i) > In(i)

\* The store holds a booking of one night and a booking of more than one.
C20_Witness ==
    \E i, j \in 1..Len(bookings) :
        /\ Out(i) = In(i) + 1
        /\ Out(j) > In(j) + 1

\* C22: a booking request for a room whose row is not in Rooms when the
\* request runs reports NotFound and goes no further, and no booking is
\* inserted for such a room.
C22_MissingRoomIsNotFound ==
    [][\A s \in Sessions :
          /\ \A r \in 1..Len(rooms) :
                (BookCheck(s, r) /\ r \notin RoomIds)
                => (msg' = "NotFound" /\ pend'[s] = NoCall)
          /\ \A proceed \in BOOLEAN :
                (BookInsert(s, proceed) /\ pend[s].room_id \notin RoomIds)
                => bookings' = bookings]_vars

\* C23: every booking's room id is the id of a row of Rooms.
C23_BookingsReferToRooms ==
    \A i \in 1..Len(bookings) : bookings[i].room_id \in RoomIds

\* C29: no two rooms have the same room number, and an add-room or an
\* edit-room whose number another room has is rejected as a duplicate and
\* leaves Rooms as it was.
C29_RoomNumbersUnique ==
    [][/\ \A r \in RoomIds', q \in RoomIds' :
             r # q => rooms'[r].room_number # rooms'[q].room_number
       /\ \A num \in RoomNumbers, rtype \in RoomTypes, price \in {1600} :
             (AddRoom(num, rtype, price) /\ NumberTaken(num, 0))
             => (rooms' = rooms /\ msg' = "DuplicateRoomNumber")
       /\ \A rid \in RoomIds, num \in RoomNumbers :
          \A rtype \in RoomTypes, status \in RoomStatuses :
             (EditRoom(rid, num, rtype, rooms[rid].price_per_night, status)
              /\ NumberTaken(num, rid))
             => (rooms' = rooms /\ msg' = "DuplicateRoomNumber")]_vars

\* A duplicate number was just rejected while Rooms holds three rooms, one of
\* them added by the staff.
C29_Witness ==
    /\ msg = "DuplicateRoomNumber"
    /\ Cardinality(RoomIds) = 3

\* What the bookings in the store make of a request of instance s for room r
\* over the interval of its list.
BookOutcome(s, r) ==
    IF Taken(r, browse[s].checkin, browse[s].checkout)
    THEN "RoomUnavailable" ELSE "Accepted"

\* C28: a booking request ends as the bookings in the store alone decide, and
\* that decision is the same before and after any step that changes nothing
\* but the status of rooms: a room set to Maintenance or Booked after the
\* search is booked like an Available one.
C28_RoomStatusDoesNotGateBooking ==
    [][/\ \A s \in Sessions, r \in 1..Len(rooms) :
             BookCheck(s, r) =>
               IF BookOutcome(s, r) = "RoomUnavailable"
               THEN msg' = "RoomUnavailable" /\ pend'[s] = NoCall
               ELSE pend'[s].room_id = r
       /\ (/\ rooms' # rooms
           /\ Len(rooms') = Len(rooms)
           /\ \A r \in 1..Len(rooms) :
                 [rooms'[r] EXCEPT !.status = ""] = [rooms[r] EXCEPT !.status = ""]
           /\ bookings' = bookings
           /\ browse' = browse)
          => \A s \in Sessions, r \in 1..Len(rooms) :
                BookOutcome(s, r)' = BookOutcome(s, r)]_vars

\* A request has just passed its availability check for a room that is in
\* Maintenance.
C28_Witness ==
    /\ msg = ""
    /\ \E s \in Sessions :
          /\ pend[s] # NoCall
          /\ rooms[pend[s].room_id].status = "Maintenance"

\* C24: payments are append-only: in every step each payment row already
\* in the store stays where it is with its booking, amount and mode, and rows
\* are only added after it.
C24_PaymentsAppendOnly ==
    [][/\ Len(payments') >= Len(payments)
       /\ SubSeq(payments', 1, Len(payments)) = payments]_vars

\* A payment was just made and the store holds two payments of one booking.
C24_Witness ==
    /\ msg = "Paid"
    /\ Len(payments) = 2
    /\ payments[1].booking_id = payments[2].booking_id

\* C25: whoever lists a customer's bookings sees a payment and the status it
\* brings together: a booking is listed as Paid exactly when it is listed as
\* Confirmed, never as Paid and still Pending.
C25_PaymentAndStatusTogether ==
    \A c \in Customers : \A row \in LoadRows(bookings, payments, c) :
        /\ row.paid = "Paid" => row.status # "Pending"
        /\ (row.paid = "Paid") <=> (row.status = "Confirmed")

\* An instance that did not make the latest payment has listed the paid
\* booking, as Paid and Confirmed, while the payer has it listed too.
C25_Witness ==
    /\ msg = ""
    /\ Len(payments) >= 1
    /\ \A s \in Sessions :
          /\ screen[s] = "my_bookings"
          /\ \E row \in mine[s] : row.paid = "Paid" /\ row.status = "Confirmed"

\* C30: a payment or a cancellation never makes a booking active that was
\* not: a booking that is neither Pending nor Confirmed before the step is
\* neither after it.
C30_PayAndCancelNeverActivate ==
    [][\A s \in Sessions :
          (\/ \E m \in Modes : DoPay(s, m)
           \/ \E row \in mine[s], confirm \in BOOLEAN :
                 CancelBooking(s, row, confirm))
          => \A i \in 1..Len(bookings) : ~Active(i) => ~Active(i)']_vars

\* C21: create_booking called with a check-out on or before the check-in
\* fails with InvalidRange and inserts no booking.
C21_CreateBookingRejectsInvalidRange ==
    [][(CallCreateBooking /\ probe.args[4] <= probe.args[3])
       => (bookings' = bookings /\ probe'.ret = <<"InvalidRange">>)]_vars

\* C26: record_payment called with an amount that is not positive fails with
\* InvalidAmount: no payment row is added and no booking changes its status.
C26_RecordPaymentRejectsBadAmount ==
    [][(/\ CallRecordPayment
        /\ probe.args[1] \in 1..Len(bookings)
        /\ probe.args[2] <= 0)
       => /\ payments' = payments
          /\ bookings' = bookings
          /\ probe'.ret = <<"InvalidAmount">>]_vars

\* C27: record_payment called with the id of no booking fails with NotFound
\* and adds no payment row, so that every payment row is of a booking in the
\* store.
C27_RecordPaymentRejectsUnknownBooking ==
    [][/\ (/\ CallRecordPayment
           /\ probe.args[1] \notin 1..Len(bookings)
           /\ probe.args[2] > 0)
          => (payments' = payments /\ probe'.ret = <<"NotFound">>)
       /\ \A p \in 1..Len(payments') :
             payments'[p].booking_id \in 1..Len(bookings')]_vars

\* C31: where customers book, pay and cancel and the staff sets no status,
\* every Confirmed booking has at least one payment row.
C31_ConfirmedHasPayment ==
    \A b \in 1..Len(bookings) :
        bookings[b].status = "Confirmed" => PayCount(b) >= 1

\* A payment was just made: one booking is Confirmed and paid, and another,
\* paid earlier and cancelled since, has kept its payment row.
C31_Witness ==
    /\ msg = "Paid"
    /\ \E b, c \in 1..Len(bookings) :
          /\ bookings[b].status = "Confirmed"
          /\ PayCount(b) = 1
          /\ bookings[c].status = "Cancelled"
          /\ PayCount(c) = 1

\* C32: where customers book and pay, on any number of instances, no booking
\* has more than one payment row.
C32_AtMostOnePayment ==
    \A b \in 1..Len(bookings) : PayCount(b) <= 1

\* C33: while an instance lists rooms, the interval stored with the list is
\* the interval of the search that filled it, with its check-out after its
\* check-in: a step either leaves the list and its interval as they are (a
\* search refused for its dates does) or is a search that found rooms and
\* stored its own dates, and a search that finds no room empties the list.
\* The booking a request inserts has the interval stored with the list.
C33_BookedIntervalIsTheSearchInterval ==
    [][\A s \in Sessions :
          /\ browse'[s].rows # {} =>
                /\ browse'[s].checkout > browse'[s].checkin
                /\ \/ browse'[s] = browse[s]
                   \/ \E start \in Dates, end \in Dates :
                      \E room_type \in RoomTypeFilters :
                         /\ Search(s, start, end, room_type)
                         /\ end > start
                         /\ browse'[s] =
                               [rows |-> find_available_rooms(start, end, room_type),
                                checkin |-> start, checkout |-> end]
          /\ \A start \in Dates, end \in Dates :
                (Search(s, start, end, "All") /\ msg' = "NoRooms")
                => browse'[s].rows = {}
          /\ \A proceed \in BOOLEAN :
                BookInsert(s, proceed) =>
                  /\ browse[s].rows # {}
                  /\ strptime(bookings'[Len(bookings')].check_in) = browse[s].checkin
                  /\ strptime(bookings'[Len(bookings')].check_out) = browse[s].checkout]_vars

\* C37: every payment row has an amount above 0; the amount a payment window
\* is opened with is the number of nights of the booking, which is at least
\* 1, times the price of its room; and every room has a price above 0.
C37_PaymentAmountsPositive ==
    [][/\ \A p \in 1..Len(payments') :
             payments'[p].amount # NULL /\ payments'[p].amount > 0
       /\ \A s \in Sessions :
             (payWin'[s] # NoWin /\ payWin'[s] # payWin[s])
             => LET b == bookings'[payWin'[s].booking_id]
                    nights == strptime(b.check_out) - strptime(b.check_in)
                IN /\ nights >= 1
                   /\ payWin'[s].amount = nights * rooms[b.room_id].price_per_night
       /\ \A r \in RoomIds' :
             rooms'[r].price_per_night # NULL /\ rooms'[r].price_per_night > 0]_vars

\* C34: no step removes a booking or changes a booking's customer, room,
\* check-in or check-out, and a payment, a cancellation or a staff status
\* update changes the status of no booking but the one it names.
C34_OnlyStatusChanges ==
    [][/\ Len(bookings') >= Len(bookings)
       /\ \A i \in 1..Len(bookings) :
             [bookings'[i] EXCEPT !.status = ""] = [bookings[i] EXCEPT !.status = ""]
       /\ \A s \in Sessions, m \in Modes :
             DoPay(s, m) =>
               \A i \in 1..Len(bookings) :
                  i # payWin[s].booking_id => bookings'[i] = bookings[i]
       /\ \A s \in Sessions : \A row \in mine[s] : \A confirm \in BOOLEAN :
             CancelBooking(s, row, confirm) =>
               \A i \in 1..Len(bookings) :
                  i # row.booking_id => bookings'[i] = bookings[i]
       /\ \A bid \in StaffRows, st \in Statuses :
             SetStatus(bid, st) =>
               \A i \in 1..Len(bookings) :
                  i # bid => bookings'[i] = bookings[i]]_vars

\* The store holds two bookings, one paid and then set to Completed by the
\* staff, the other cancelled by the customer.
C34_Witness ==
    /\ Len(bookings) = 2
    /\ \E i, j \in 1..Len(bookings) :
          /\ bookings[i].status = "Completed"
          /\ PayCount(i) = 1
          /\ bookings[j].status = "Cancelled"
          /\ msg = "Cancelled"

\* C35: a booking request, a payment, a cancellation and a staff status
\* update leave Rooms as it is, and a step that changes a room is a staff room
\* edit: no room becomes Booked or Available by a booking being made, paid or
\* cancelled.
C35_BookingsLeaveRoomsAlone ==
    [][/\ (\/ \E s \in Sessions :
                \/ \E r \in 1..Len(rooms) : BookCheck(s, r)
                \/ \E proceed \in BOOLEAN : BookInsert(s, proceed)
                \/ \E m \in Modes : DoPay(s, m)
                \/ \E row \in mine[s], confirm \in BOOLEAN :
                      CancelBooking(s, row, confirm)
            \/ \E bid \in StaffRows, st \in Statuses : SetStatus(bid, st))
          => rooms' = rooms
       /\ rooms' # rooms
          => \E rid \in RoomIds, status \in RoomStatuses :
                EditRoom(rid, rooms[rid].room_number, rooms[rid].room_type,
                         rooms[rid].price_per_night, status)]_vars

\* A booking was just cancelled whose room the staff has set to Booked, and
\* the room stays Booked; another room has a paid booking and is Available.
C35_Witness ==
    /\ msg = "Cancelled"
    /\ \E i, j \in 1..Len(bookings) :
          /\ bookings[i].status = "Cancelled"
          /\ rooms[bookings[i].room_id].status = "Booked"
          /\ bookings[j].status = "Confirmed"
          /\ PayCount(j) = 1
          /\ rooms[bookings[j].room_id].status = "Available"

\* Some booking, of any status, is of room r.
HasBooking(r) == \E i \in 1..Len(bookings) : bookings[i].room_id = r

C38_OnlyOwnBookings ==
    [][\A s \in Sessions :
          /\ ((\E c \in Customers : Login(s, c)) \/ Logout(s)) => store' = store
          /\ Customer(s) =>
                \A i \in 1..Len(bookings) :
                   bookings[i].customer_id # user[s]
                   => (bookings'[i] = bookings[i] /\ PayCount(i)' = PayCount(i))]_vars

\* The store holds a booking of each customer: one was paid by its customer
\* and the other has just been cancelled by its own.
C38_Witness ==
    /\ msg = "Cancelled"
    /\ \E i, j \in 1..Len(bookings) :
          /\ bookings[i].customer_id # bookings[j].customer_id
          /\ bookings[i].status = "Cancelled"
          /\ bookings[j].status = "Confirmed"
          /\ PayCount(j) = 1

====
